---- MODULE Spec2Model ----
(***************************************************************************)
(* State-machine model of src/js/main.js (ChocoCraft front-end layer):     *)
(* the testimonial carousel, the ripple and particle effects of the        *)
(* animation controller, and the frame-coalesced parallax update.          *)
(*                                                                         *)
(* The browser is modelled by what the handlers rely on: interval timers   *)
(* (a live timer fires every IntervalSteps clock steps until cleared),     *)
(* one-shot timeouts of equal delay firing in creation order, and one      *)
(* queue of animation-frame callbacks that a rendering frame runs whole.   *)
(***************************************************************************)
EXTENDS Integers, Sequences, FiniteSets, TLC

\* ---------------------------------------------------------------- bounds
\* Largest number of slides inside #testimonialCarousel.
MaxSlides == 4
\* Largest number of ".carousel-dots .dot" elements in the document.
MaxDots == 5
\* Largest timer id setInterval hands out before the model stops restarting.
MaxTimerId == 4
\* Clock steps that make up one 2500ms auto-play interval.
IntervalSteps == 3
\* Largest number of ripples created on the button.
MaxRipples == 2
\* Largest number of particle bursts.
MaxBursts == 2
\* Scroll offsets are 0, 100, ..., 100 * MaxScrollSteps pixels.
MaxScrollSteps == 2
\* Largest number of scroll events counted between two frames.
MaxScrollEvents == 3
\* Largest number of words in an image's alt text.
MaxWords == 3
\* Number of .fade-in-up elements on the page.
MaxReveal == 3
\* Cap of the per-element count of running-state writes.
MaxTriggers == 2
\* Cap of the per-element count of viewport crossings after its reveal.
MaxReturns == 2

\* ------------------------------------------------------ program constants
\* this.autoPlayInterval = null; timer ids are positive, so null is the
\* one falsy handle.
Null == 0
\* CONFIG.PARTICLES.COUNT
PARTICLES_COUNT == 8

VARIABLES
    \* --- the page the carousel controller finds (fixed after load)
    page,              \* [carousel, slides, dots, container]
    \* --- TestimonialCarouselController
    slides,            \* this.slides: sequence of positional class sets
    dots,              \* this.dots: sequence of class sets
    currentIndex,      \* this.currentIndex
    autoPlayInterval,  \* this.autoPlayInterval (Null or a timer id)
    intervals,         \* live interval timers: id -> steps since last fire
    nextTimerId,       \* next id setInterval returns
    \* --- history of the carousel run
    hovering,          \* a mouseenter was seen and no mouseleave since
    sinceStart,        \* steps since the last startAutoPlay (capped)
    lastCall,          \* auto-play call of the last handler, and whether
                       \* a timer was live when it was made
    runStart,          \* index at the start of the current run of advances
    runLen,            \* consecutive nextSlide calls in the current run
    \* --- a .btn control and its ripples
    position0,         \* inline position before the first burst
    buttonPosition,    \* button.style.position
    buttonOverflow,    \* button.style.overflow
    buttonTransform,   \* button.style.transform
    ripples,           \* ripple elements attached to the button
    rippleTimers,      \* pending RIPPLE_LIFE timeouts, in creation order
    pressTimers,       \* pending FAST timeouts of addButtonPressEffect
    nextRipple,        \* identity of the next ripple element
    \* --- a .product-card and its particles
    body,              \* particle elements attached to document.body
    styled,            \* attached particles whose frame callback has run
    particleTimers,    \* pending PARTICLE_LIFE timeouts, in creation order
    nextBurst,         \* identity of the next burst
    cardTransform,     \* card.style.transform
    cardPressTimers,   \* pending FAST timeouts of handleCardClick
    \* --- parallax
    heroContent,       \* whether .hero__content exists
    pageYOffset,       \* window.pageYOffset
    ticking,           \* the closure variable of setupParallaxScrolling
    heroTransform,     \* vertical translate of the hero content (-1: unset)
    textureTransform,  \* vertical translate of the textures (-1: unset)
    scrollsSinceFrame, \* scroll events since the last frame (capped)
    frameScrolls,      \* scroll events that preceded the last frame
    frameRecomputes,   \* parallax recomputations the last frame ran
    \* --- navigation bar and in-page anchors
    navPage,           \* [navbar, toggle, menu, hero, ids] found on the page
    ariaExpanded,      \* the toggle's aria-expanded attribute ("null": absent)
    menuActive,        \* whether .navbar__menu has the class "active"
    scrollTarget,      \* element of the last scrollIntoView call
    defaultPrevented,  \* whether the last link click had its default prevented
    lastHref,          \* href of the link clicked last
    \* --- an <img> and its error listener
    imgAlt,            \* img.alt, a sequence of characters
    imgSlot,           \* what stands at the image's place in its parent
    errorListener,     \* the { once: true } error listener is still bound
    \* --- reveal on scroll (IntersectionObserver 'fadeIn')
    observed,          \* the observer's targets
    playState,         \* element -> style.animationPlayState
    inView,            \* element -> it intersects the viewport now
    pending,           \* targets with an entry queued for the callback
    triggers,          \* element -> times the callback set it running
    returns,           \* element -> viewport crossings since its reveal
    \* --- ChocoCraftApp
    controllers,       \* this.controllers: the registered names, in
                       \* insertion order
    throwing,          \* the start-up steps that throw on this page
    initialized,       \* initializeControllers() has run
    stylesInjected,    \* addGlobalStyles() has run
    caught,            \* the step whose exception the catch block logged
    propagated,        \* an exception left initializeControllers()
    destroyed,         \* destroy() has run
    \* --- the event handled last by the card or the button
    eventTarget,       \* event.target.tagName of the last card event
    rect,              \* outcome of its Utils.getBoundingRect call:
                       \* "rect", "null" (the query threw) or "none"
    keyDefaultPrevented, \* the card's handler called preventDefault() on it
    \* --- the browser
    rafQueue,          \* requestAnimationFrame callbacks awaiting a frame
    lastEvent          \* the handler that ran last

carVars == <<page, slides, dots, currentIndex, autoPlayInterval, intervals,
             nextTimerId, hovering, sinceStart, lastCall, runStart, runLen>>
btnVars == <<position0, buttonPosition, buttonOverflow, buttonTransform,
             ripples, rippleTimers, pressTimers, nextRipple>>
cardVars == <<body, styled, particleTimers, nextBurst, cardTransform,
              cardPressTimers>>
plxVars == <<heroContent, pageYOffset, ticking, heroTransform,
             textureTransform, scrollsSinceFrame, frameScrolls,
             frameRecomputes>>
navVars == <<navPage, ariaExpanded, menuActive, scrollTarget,
             defaultPrevented, lastHref>>
\* The controllers added after the animation engine and the carousel.
imgVars == <<imgAlt, imgSlot, errorListener>>
evtVars == <<eventTarget, rect, keyDefaultPrevented>>
\* The controllers bound to other elements of the page.
appVars == <<controllers, throwing, initialized, stylesInjected, caught,
             propagated, destroyed>>
revVars == <<observed, playState, inView, pending, triggers, returns>>
pageVars == <<navVars, imgVars, appVars, revVars>>
extVars == <<pageVars, evtVars>>
vars == <<carVars, btnVars, cardVars, plxVars, extVars, rafQueue, lastEvent>>

\* ================================================================ carousel

\* The pages the controller may be constructed on.
Pages ==
    {p \in [carousel : BOOLEAN, slides : 0..MaxSlides, dots : 0..MaxDots,
            container : BOOLEAN] :
        ~p.carousel => p.slides = 0}

\* Faulty variant of Initialized: the slide count is not looked at.
InitializedIgnoringSlides == page.carousel

\* init() ran to the end: the carousel exists and holds a slide.
Initialized == page.carousel /\ page.slides > 0

\* The hover listeners are bound.
HoverBound == Initialized /\ page.container

\* Faulty variant of SlideClass: independent ifs instead of the else-if chain.
SlideClassIndependent(i, idx, n) ==
    (IF i = idx THEN {"active"} ELSE {})
        \cup (IF i = (idx - 1 + n) % n THEN {"prev"} ELSE {})
        \cup (IF i = (idx + 1) % n THEN {"next"} ELSE {})

\* updateCarousel, slide loop body: the positional classes of slide i
\* (0-based) after remove('active','prev','next') and the else-if chain.
SlideClass(i, idx, n) ==
    IF i = idx THEN {"active"}
    ELSE IF i = (idx - 1 + n) % n THEN {"prev"}
    ELSE IF i = (idx + 1) % n THEN {"next"}
    ELSE {}

\* updateCarousel, dot loop body: classList.toggle('active', i === idx).
DotClass(i, idx) == IF i = idx THEN {"active"} ELSE {}

\* updateCarousel over n slides and d dots.
updateCarousel(idx, n, d) ==
    [slides |-> [k \in 1..n |-> SlideClass(k - 1, idx, n)],
     dots |-> [k \in 1..d |-> DotClass(k - 1, idx)]]

\* Faulty variant of nextIndex: stops at the last slide instead of wrapping.
nextIndexClamped(idx, n) == IF idx + 1 < n THEN idx + 1 ELSE idx

\* nextSlide: (this.currentIndex + 1) % this.slides.length
nextIndex(idx, n) == (idx + 1) % n

\* clearInterval(id): the timer is no longer live (a dead id is ignored).
clearInterval(ivs, id) == [t \in DOMAIN ivs \ {id} |-> ivs[t]]

\* setInterval(cb, 2500) returning id: a live timer with nothing elapsed.
setInterval(ivs, id) == ivs @@ (id :> 0)

\* Faulty variant of stopAutoPlay: clears the timer but keeps the stale handle.
stopAutoPlayKeepsHandle(h, ivs) ==
    IF h # Null
    THEN [autoPlayInterval |-> h, intervals |-> clearInterval(ivs, h)]
    ELSE [autoPlayInterval |-> h, intervals |-> ivs]

\* stopAutoPlay
stopAutoPlay(h, ivs) ==
    IF h # Null
    THEN [autoPlayInterval |-> Null, intervals |-> clearInterval(ivs, h)]
    ELSE [autoPlayInterval |-> h, intervals |-> ivs]

\* Faulty variant of startAutoPlay: does not stop the running timer first.
startAutoPlayNoStop(h, ivs, id) ==
    [autoPlayInterval |-> id, intervals |-> setInterval(ivs, id)]

\* Faulty variant of startAutoPlay: keeps a running timer instead of restarting.
startAutoPlayResume(h, ivs, id) ==
    IF h # Null
    THEN [autoPlayInterval |-> h, intervals |-> ivs]
    ELSE [autoPlayInterval |-> id, intervals |-> setInterval(ivs, id)]

\* startAutoPlay
startAutoPlay(h, ivs, id) ==
    LET st == stopAutoPlay(h, ivs)
    IN  [autoPlayInterval |-> id,
         intervals |-> setInterval(st.intervals, id)]

\* State after new TestimonialCarouselController().
InitCarousel ==
    /\ page \in Pages
    /\ currentIndex = 0
    /\ slides = IF Initialized
                THEN updateCarousel(0, page.slides, page.dots).slides
                ELSE <<>>
    /\ dots = IF Initialized
              THEN updateCarousel(0, page.slides, page.dots).dots
              ELSE IF page.carousel
                   THEN [k \in 1..page.dots |-> {}]
                   ELSE <<>>
    /\ autoPlayInterval =
          IF Initialized THEN startAutoPlay(Null, <<>>, 1).autoPlayInterval
          ELSE Null
    /\ intervals =
          IF Initialized THEN startAutoPlay(Null, <<>>, 1).intervals
          ELSE <<>>
    /\ nextTimerId = IF Initialized THEN 2 ELSE 1
    /\ hovering = FALSE
    /\ sinceStart = 0
    /\ lastCall = "none"
    /\ runStart = 0
    /\ runLen = 0

\* Click on the dot at position i: goToSlide(i).
DotClick(i) ==
    /\ Initialized
    /\ i \in 0..(Len(dots) - 1)
    /\ currentIndex' = i
    /\ slides' = updateCarousel(i, Len(slides), Len(dots)).slides
    /\ dots' = updateCarousel(i, Len(slides), Len(dots)).dots
    /\ runStart' = i
    /\ runLen' = 0
    /\ lastCall' = "none"
    /\ lastEvent' = "dot"
    /\ UNCHANGED extVars
    /\ UNCHANGED <<page, autoPlayInterval, intervals, nextTimerId, hovering,
                   sinceStart>>
    /\ UNCHANGED <<btnVars, cardVars, plxVars, rafQueue>>

\* mouseenter on .testimonial-carousel-container: stopAutoPlay().
MouseEnter ==
    /\ HoverBound
    /\ autoPlayInterval' = stopAutoPlay(autoPlayInterval, intervals).autoPlayInterval
    /\ intervals' = stopAutoPlay(autoPlayInterval, intervals).intervals
    /\ hovering' = TRUE
    /\ lastCall' = IF DOMAIN intervals = {} THEN "stop-idle"
                   ELSE "stop-running"
    /\ lastEvent' = "mouseenter"
    /\ UNCHANGED extVars
    /\ UNCHANGED <<page, slides, dots, currentIndex, nextTimerId, sinceStart,
                   runStart, runLen>>
    /\ UNCHANGED <<btnVars, cardVars, plxVars, rafQueue>>

\* mouseleave on .testimonial-carousel-container: startAutoPlay().
MouseLeave ==
    /\ HoverBound
    /\ nextTimerId <= MaxTimerId
    /\ autoPlayInterval' =
          startAutoPlay(autoPlayInterval, intervals, nextTimerId).autoPlayInterval
    /\ intervals' =
          startAutoPlay(autoPlayInterval, intervals, nextTimerId).intervals
    /\ nextTimerId' = nextTimerId + 1
    /\ hovering' = FALSE
    /\ sinceStart' = 0
    /\ lastCall' = IF DOMAIN intervals = {} THEN "start-idle"
                   ELSE "start-running"
    /\ lastEvent' = "mouseleave"
    /\ UNCHANGED extVars
    /\ UNCHANGED <<page, slides, dots, currentIndex, runStart, runLen>>
    /\ UNCHANGED <<btnVars, cardVars, plxVars, rafQueue>>

\* The interval timer t is due and fires: nextSlide().
IntervalTick(t) ==
    /\ t \in DOMAIN intervals
    /\ intervals[t] = IntervalSteps
    /\ currentIndex' = nextIndex(currentIndex, Len(slides))
    /\ slides' = updateCarousel(currentIndex', Len(slides), Len(dots)).slides
    /\ dots' = updateCarousel(currentIndex', Len(slides), Len(dots)).dots
    /\ intervals' = [intervals EXCEPT ![t] = 0]
    /\ IF runLen >= Len(slides)
       THEN runStart' = currentIndex /\ runLen' = 1
       ELSE runStart' = runStart /\ runLen' = runLen + 1
    /\ lastCall' = "none"
    /\ lastEvent' = "tick"
    /\ UNCHANGED extVars
    /\ UNCHANGED <<page, autoPlayInterval, nextTimerId, hovering, sinceStart>>
    /\ UNCHANGED <<btnVars, cardVars, plxVars, rafQueue>>

\* One clock step passes; a due timer fires before the clock moves on.
TimePasses ==
    /\ \A t \in DOMAIN intervals : intervals[t] < IntervalSteps
    /\ \/ DOMAIN intervals # {}
       \/ sinceStart < IntervalSteps
    /\ intervals' = [t \in DOMAIN intervals |-> intervals[t] + 1]
    /\ sinceStart' = IF sinceStart < IntervalSteps THEN sinceStart + 1
                     ELSE sinceStart
    /\ lastCall' = "none"
    /\ lastEvent' = "time"
    /\ UNCHANGED extVars
    /\ UNCHANGED <<page, slides, dots, currentIndex, autoPlayInterval,
                   nextTimerId, hovering, runStart, runLen>>
    /\ UNCHANGED <<btnVars, cardVars, plxVars, rafQueue>>

\* An event on an element init() bound no listener to: a click on a dot, or
\* the pointer entering or leaving the container, of a page whose init()
\* returned early. No handler runs.
UnboundEvent(ev) ==
    /\ ~Initialized
    /\ ev = "dot-unbound" => page.dots > 0
    /\ ev \in {"mouseenter-unbound", "mouseleave-unbound"} => page.container
    /\ hovering' = IF ev = "dot-unbound" THEN hovering
                   ELSE ev = "mouseenter-unbound"
    /\ lastCall' = "none"
    /\ lastEvent' = ev
    /\ UNCHANGED extVars
    /\ UNCHANGED <<page, slides, dots, currentIndex, autoPlayInterval,
                   intervals, nextTimerId, sinceStart, runStart, runLen>>
    /\ UNCHANGED <<btnVars, cardVars, plxVars, rafQueue>>

NextCarousel ==
    \/ \E ev \in {"dot-unbound", "mouseenter-unbound", "mouseleave-unbound"} :
          UnboundEvent(ev)
    \/ \E i \in 0..(MaxDots - 1) : DotClick(i)
    \/ MouseEnter
    \/ MouseLeave
    \/ \E t \in 1..MaxTimerId : IntervalTick(t)
    \/ TimePasses

\* ================================================================== ripple

InitButton ==
    /\ position0 \in {"", "relative", "absolute"}
    /\ buttonPosition = position0
    /\ buttonOverflow = ""
    /\ buttonTransform = ""
    /\ ripples = {}
    /\ rippleTimers = <<>>
    /\ pressTimers = 0
    /\ nextRipple = 1

\* Click on the button: createRippleEffect(button, event), then
\* addButtonPressEffect(button).  rectOk is whether the geometry query of
\* Utils.getBoundingRect returned a rectangle.
ButtonClick(rectOk) ==
    /\ nextRipple <= MaxRipples
    /\ pressTimers < MaxRipples
    /\ IF rectOk
       THEN /\ ripples' = ripples \cup {nextRipple}
            /\ rippleTimers' =
                  Append(rippleTimers,
                         [ripple |-> nextRipple,
                          originalPosition |-> buttonPosition])
            /\ buttonPosition' = "relative"
            /\ buttonOverflow' = "hidden"
            /\ nextRipple' = nextRipple + 1
       ELSE UNCHANGED <<ripples, rippleTimers, buttonPosition,
                        buttonOverflow, nextRipple>>
    /\ buttonTransform' = "scale(0.98)"
    /\ pressTimers' = pressTimers + 1
    /\ lastEvent' = "buttonclick"
    /\ eventTarget' = "BUTTON"
    /\ rect' = IF rectOk THEN "rect" ELSE "null"
    /\ keyDefaultPrevented' = FALSE
    /\ UNCHANGED pageVars
    /\ UNCHANGED <<position0, carVars, cardVars, plxVars, rafQueue>>

\* The oldest RIPPLE_LIFE timeout fires: detach its ripple and write back
\* the position it captured.
RippleTimeout ==
    /\ rippleTimers # <<>>
    /\ ripples' = ripples \ {Head(rippleTimers).ripple}
    /\ buttonPosition' = Head(rippleTimers).originalPosition
    /\ rippleTimers' = Tail(rippleTimers)
    /\ lastEvent' = "rippletimeout"
    /\ UNCHANGED extVars
    /\ UNCHANGED <<position0, buttonOverflow, buttonTransform, pressTimers,
                   nextRipple>>
    /\ UNCHANGED <<carVars, cardVars, plxVars, rafQueue>>

\* A FAST timeout of addButtonPressEffect fires.
ButtonPressTimeout ==
    /\ pressTimers > 0
    /\ buttonTransform' = ""
    /\ pressTimers' = pressTimers - 1
    /\ lastEvent' = "buttonpresstimeout"
    /\ UNCHANGED extVars
    /\ UNCHANGED <<position0, buttonPosition, buttonOverflow, ripples,
                   rippleTimers, nextRipple>>
    /\ UNCHANGED <<carVars, cardVars, plxVars, rafQueue>>

NextRipple ==
    \/ \E rectOk \in BOOLEAN : ButtonClick(rectOk)
    \/ RippleTimeout
    \/ ButtonPressTimeout

\* =============================================================== particles

InitCard ==
    /\ body = {}
    /\ styled = {}
    /\ particleTimers = <<>>
    /\ nextBurst = 1
    /\ cardTransform = ""
    /\ cardPressTimers = 0

\* The particle elements of burst b, one per index 0..COUNT-1.
Burst(b) == {<<b, i>> : i \in 0..(PARTICLES_COUNT - 1)}

\* The frame callbacks createParticle requests for burst b, in loop order.
BurstCallbacks(b) ==
    [k \in 1..PARTICLES_COUNT |-> [kind |-> "particle", p |-> <<b, k - 1>>]]

\* Faulty variant of ParticleCleanup: detaches only particles that were animated.
ParticleCleanupAnimatedOnly(attached, particles, animated) ==
    attached \ (particles \cap animated)

\* The cleanup timeout of createParticleAnimation: every particle of the
\* burst that still has a parent is removed from it.
ParticleCleanup(attached, particles, animated) == attached \ particles

\* Faulty variant of handleCardClick: createParticleAnimation goes on
\* without a rectangle.
handleCardClickNoRectCheck(rectOk) ==
    /\ nextBurst <= MaxBursts
    /\ cardPressTimers < MaxBursts
    /\ body' = body \cup Burst(nextBurst)
    /\ rafQueue' = rafQueue \o BurstCallbacks(nextBurst)
    /\ particleTimers' = Append(particleTimers, Burst(nextBurst))
    /\ nextBurst' = nextBurst + 1
    /\ cardTransform' = "scale(0.98)"
    /\ cardPressTimers' = cardPressTimers + 1
    /\ UNCHANGED styled

\* handleCardClick(card): createParticleAnimation(card), then the press
\* feedback.
handleCardClick(rectOk) ==
    /\ nextBurst <= MaxBursts
    /\ cardPressTimers < MaxBursts
    /\ IF rectOk
       THEN /\ body' = body \cup Burst(nextBurst)
            /\ rafQueue' = rafQueue \o BurstCallbacks(nextBurst)
            /\ particleTimers' = Append(particleTimers, Burst(nextBurst))
            /\ nextBurst' = nextBurst + 1
       ELSE UNCHANGED <<body, rafQueue, particleTimers, nextBurst>>
    /\ cardTransform' = "scale(0.98)"
    /\ cardPressTimers' = cardPressTimers + 1
    /\ UNCHANGED styled

\* Faulty variant of CardClick: the target of the click is not looked at.
CardClickNoGuard(targetTag, rectOk) ==
    /\ handleCardClick(rectOk)
    /\ rect' = IF rectOk THEN "rect" ELSE "null"
    /\ eventTarget' = targetTag
    /\ keyDefaultPrevented' = FALSE
    /\ lastEvent' = "cardclick"
    /\ UNCHANGED pageVars
    /\ UNCHANGED <<carVars, btnVars, plxVars>>

\* Click on the card; targetTag is event.target.tagName.
CardClick(targetTag, rectOk) ==
    /\ IF targetTag = "BUTTON"
       THEN /\ UNCHANGED <<cardVars, rafQueue>>
            /\ rect' = "none"
       ELSE /\ handleCardClick(rectOk)
            /\ rect' = IF rectOk THEN "rect" ELSE "null"
    /\ eventTarget' = targetTag
    /\ keyDefaultPrevented' = FALSE
    /\ lastEvent' = "cardclick"
    /\ UNCHANGED pageVars
    /\ UNCHANGED <<carVars, btnVars, plxVars>>

\* Keydown on the card or inside it; key is event.key, targetTag is
\* event.target.tagName.
CardKeydown(key, targetTag, rectOk) ==
    /\ IF key \in {"Enter", " "}
       THEN /\ handleCardClick(rectOk)
            /\ rect' = IF rectOk THEN "rect" ELSE "null"
       ELSE /\ UNCHANGED <<cardVars, rafQueue>>
            /\ rect' = "none"
    /\ eventTarget' = targetTag
    /\ keyDefaultPrevented' = (key \in {"Enter", " "})
    /\ lastEvent' = "cardkeydown"
    /\ UNCHANGED pageVars
    /\ UNCHANGED <<carVars, btnVars, plxVars>>

\* The oldest PARTICLE_LIFE timeout fires.
ParticleTimeout ==
    /\ particleTimers # <<>>
    /\ body' = ParticleCleanup(body, Head(particleTimers), styled)
    /\ styled' = styled \cap body'
    /\ particleTimers' = Tail(particleTimers)
    /\ lastEvent' = "particletimeout"
    /\ UNCHANGED extVars
    /\ UNCHANGED <<nextBurst, cardTransform, cardPressTimers>>
    /\ UNCHANGED <<carVars, btnVars, plxVars, rafQueue>>

\* A FAST timeout of handleCardClick fires.
CardPressTimeout ==
    /\ cardPressTimers > 0
    /\ cardTransform' = ""
    /\ cardPressTimers' = cardPressTimers - 1
    /\ lastEvent' = "cardpresstimeout"
    /\ UNCHANGED extVars
    /\ UNCHANGED <<body, styled, particleTimers, nextBurst>>
    /\ UNCHANGED <<carVars, btnVars, plxVars, rafQueue>>

\* ================================================================ parallax

InitParallax ==
    /\ heroContent \in BOOLEAN
    /\ pageYOffset = 0
    /\ ticking = FALSE
    /\ heroTransform = -1
    /\ textureTransform = -1
    /\ scrollsSinceFrame = 0
    /\ frameScrolls = 0
    /\ frameRecomputes = 0

\* The scroll offsets a scroll event may report.
ScrollOffsets == {100 * k : k \in 0..MaxScrollSteps}

\* Animation-frame callbacks of the given kind awaiting a frame.
Pending(kind) ==
    Cardinality({k \in 1..Len(rafQueue) : rafQueue[k].kind = kind})

\* Faulty variant of handleScroll: requests a frame on every scroll event.
handleScrollUnguarded(tk, queue) ==
    [ticking |-> TRUE,
     rafQueue |-> Append(queue, [kind |-> "parallax", p |-> <<0, 0>>])]

\* handleScroll: request one recomputation unless one is pending.
handleScroll(tk, queue) ==
    IF ~tk
    THEN [ticking |-> TRUE,
          rafQueue |-> Append(queue, [kind |-> "parallax", p |-> <<0, 0>>])]
    ELSE [ticking |-> tk, rafQueue |-> queue]

\* A scroll event with window.pageYOffset = y.
Scroll(y) ==
    /\ scrollsSinceFrame < MaxScrollEvents
    /\ pageYOffset' = y
    /\ ticking' = handleScroll(ticking, rafQueue).ticking
    /\ rafQueue' = handleScroll(ticking, rafQueue).rafQueue
    /\ scrollsSinceFrame' = scrollsSinceFrame + 1
    /\ lastEvent' = "scroll"
    /\ UNCHANGED extVars
    /\ UNCHANGED <<heroContent, heroTransform, textureTransform,
                   frameScrolls, frameRecomputes>>
    /\ UNCHANGED <<carVars, btnVars, cardVars>>

\* A rendering frame: every queued animation-frame callback runs.  A
\* particle callback sets the particle's terminal transform; the parallax
\* callback translates the hero content by scrolled * 0.1 and the textures
\* by scrolled * 0.05 and resets ticking.
Frame ==
    /\ styled' =
          styled \cup ({rafQueue[k].p : k \in {j \in 1..Len(rafQueue) :
                            rafQueue[j].kind = "particle"}} \cap body)
    /\ IF Pending("parallax") > 0
       THEN /\ heroTransform' = IF heroContent THEN pageYOffset \div 10
                                ELSE heroTransform
            /\ textureTransform' = pageYOffset \div 20
            /\ ticking' = FALSE
       ELSE UNCHANGED <<heroTransform, textureTransform, ticking>>
    /\ frameRecomputes' = Pending("parallax")
    /\ frameScrolls' = scrollsSinceFrame
    /\ scrollsSinceFrame' = 0
    /\ rafQueue' = <<>>
    /\ lastEvent' = "frame"
    /\ UNCHANGED extVars
    /\ UNCHANGED <<heroContent, pageYOffset>>
    /\ UNCHANGED <<body, particleTimers, nextBurst, cardTransform,
                   cardPressTimers>>
    /\ UNCHANGED <<carVars, btnVars>>

NextParticle ==
    \/ \E tag \in {"DIV", "BUTTON"}, rectOk \in BOOLEAN :
          CardClick(tag, rectOk)
    \/ \E key \in {"Enter", " ", "a"}, tag \in {"DIV", "BUTTON"},
          rectOk \in BOOLEAN :
          CardKeydown(key, tag, rectOk)
    \/ ParticleTimeout
    \/ CardPressTimeout
    \/ Frame

NextParallax ==
    \/ \E y \in ScrollOffsets : Scroll(y)
    \/ Frame

\* ============================================================== navigation

\* The in-page anchors a link may name besides other pages.
Hrefs == {"#main-content", "#products", "about.html"}

\* The pages the navigation and scroll controllers may be constructed on:
\* which of .navbar, .navbar__toggle, .navbar__menu and .hero exist, and
\* which ids document.querySelector can find.
NavPages ==
    [navbar : BOOLEAN, toggle : BOOLEAN, menu : BOOLEAN, hero : BOOLEAN,
     ids : SUBSET {"#main-content", "#products"}]

\* NavigationController.init went past its guard.
NavBound == navPage.navbar

\* setupMobileToggle went past its guard.
ToggleBound == navPage.navbar /\ navPage.toggle /\ navPage.menu

\* href.startsWith('#')
StartsWithHash(href) == href \in {"#main-content", "#products"}

\* Faulty variant of toggleAria: writes isExpanded back without negating it.
toggleAriaNotNegated(aria) == IF aria = "true" THEN "true" ELSE "false"

\* Toggle listener: setAttribute('aria-expanded', !isExpanded), the boolean
\* written as its string.
toggleAria(aria) == IF aria = "true" THEN "false" ELSE "true"

\* NavigationController's link listener (line 613): the element it scrolls
\* to, or cur when it scrolls nowhere.
navScroll(href, cur) ==
    IF ~StartsWithHash(href) THEN cur
    ELSE IF href = "#main-content"
         THEN (IF navPage.hero THEN ".hero" ELSE cur)
         ELSE (IF href \in navPage.ids THEN href ELSE cur)

\* ScrollController's anchor listener (line 473): the element it scrolls
\* to, or cur when it scrolls nowhere.
anchorScroll(href, cur) ==
    IF StartsWithHash(href) /\ href \in navPage.ids THEN href ELSE cur

InitNav ==
    /\ navPage \in NavPages
    /\ ariaExpanded \in {"null", "false"}
    /\ menuActive = FALSE
    /\ scrollTarget = "none"
    /\ defaultPrevented = FALSE
    /\ lastHref = "none"

\* Click on .navbar__toggle.
ToggleClick ==
    /\ ToggleBound
    /\ ariaExpanded' = toggleAria(ariaExpanded)
    /\ menuActive' = ~menuActive
    /\ lastEvent' = "toggle"
    /\ UNCHANGED <<navPage, scrollTarget, defaultPrevented, lastHref>>
    /\ UNCHANGED <<imgVars, evtVars, appVars, revVars>>
    /\ UNCHANGED <<carVars, btnVars, cardVars, plxVars, rafQueue>>

\* Click on a .navbar__link anchor with the given href.  Its listeners run
\* in registration order: the menu-closing listener and the smooth-scroll
\* listener of NavigationController (constructed first), then the anchor
\* listener of ScrollController.  A later scrollIntoView replaces the
\* scroll an earlier one started.
NavLinkClick(href) ==
    /\ IF ToggleBound
       THEN menuActive' = FALSE /\ ariaExpanded' = "false"
       ELSE UNCHANGED <<menuActive, ariaExpanded>>
    /\ scrollTarget' =
          anchorScroll(href,
                       IF NavBound THEN navScroll(href, scrollTarget)
                       ELSE scrollTarget)
    /\ defaultPrevented' = StartsWithHash(href)
    /\ lastHref' = href
    /\ lastEvent' = "navlink"
    /\ UNCHANGED navPage
    /\ UNCHANGED <<imgVars, evtVars, appVars, revVars>>
    /\ UNCHANGED <<carVars, btnVars, cardVars, plxVars, rafQueue>>

NextNav ==
    \/ ToggleClick
    \/ \E href \in Hrefs : NavLinkClick(href)

\* ========================================================= image fallback

\* Words the alt texts are made of; "Embark" holds "bark" inside a word.
Words ==
    {<<"T", "r", "u", "f", "f", "l", "e">>,
     <<"P", "R", "A", "L", "I", "N", "E">>,
     <<"E", "m", "b", "a", "r", "k">>,
     <<"H", "e", "r", "o">>,
     <<"C", "h", "o", "c", "o", "l", "a", "t", "e">>,
     <<"A", "r", "t", "i", "s", "a", "n">>,
     <<"L", "o", "g", "o">>,
     <<"D", "a", "r", "k">>,
     <<"b", "a", "n", "n", "e", "r">>}

\* The words of ws joined by single spaces.
RECURSIVE Join(_)
Join(ws) ==
    IF ws = <<>> THEN <<>>
    ELSE IF Len(ws) = 1 THEN ws[1]
    ELSE ws[1] \o <<" ">> \o Join(Tail(ws))

\* The alt texts an image may carry: up to MaxWords words.
AltTexts == {Join(ws) : ws \in UNION {[1..n -> Words] : n \in 0..MaxWords}}

\* String.prototype.toLowerCase on one character.
LowerOf ==
        ("A" :> "a") @@ ("B" :> "b") @@ ("C" :> "c") @@ ("D" :> "d") @@
        ("E" :> "e") @@ ("F" :> "f") @@ ("G" :> "g") @@ ("H" :> "h") @@
        ("I" :> "i") @@ ("J" :> "j") @@ ("K" :> "k") @@ ("L" :> "l") @@
        ("M" :> "m") @@ ("N" :> "n") @@ ("O" :> "o") @@ ("P" :> "p") @@
        ("Q" :> "q") @@ ("R" :> "r") @@ ("S" :> "s") @@ ("T" :> "t") @@
        ("U" :> "u") @@ ("V" :> "v") @@ ("W" :> "w") @@ ("X" :> "x") @@
        ("Y" :> "y") @@ ("Z" :> "z")
Lower(c) == IF c \in DOMAIN LowerOf THEN LowerOf[c] ELSE c

\* img.alt.toLowerCase()
toLowerCase(t) == [k \in 1..Len(t) |-> Lower(t[k])]

\* String.prototype.includes: kw occurs in t as a run of characters.
includes(t, kw) ==
    \E i \in 1..(Len(t) - Len(kw) + 1) : SubSeq(t, i, i + Len(kw) - 1) = kw

\* The keywords of the first and of the second branch.
ProductKeywords == {<<"t", "r", "u", "f", "f", "l", "e">>,
                    <<"p", "r", "a", "l", "i", "n", "e">>,
                    <<"b", "a", "r", "k">>}
BrandKeywords == {<<"h", "e", "r", "o">>,
                  <<"c", "h", "o", "c", "o", "l", "a", "t", "e">>,
                  <<"a", "r", "t", "i", "s", "a", "n">>}

\* Faulty variant of createFallbackElement: the brand branch comes first.
createFallbackElementBrandFirst(alt) ==
    LET low == toLowerCase(alt)
    IN  IF \E kw \in BrandKeywords : includes(low, kw)
        THEN "image-fallback"
        ELSE IF \E kw \in ProductKeywords : includes(low, kw)
             THEN "product-card__placeholder"
             ELSE "null"

\* createFallbackElement: the class of the placeholder built, or "null".
createFallbackElement(alt) ==
    LET low == toLowerCase(alt)
    IN  IF \E kw \in ProductKeywords : includes(low, kw)
        THEN "product-card__placeholder"
        ELSE IF \E kw \in BrandKeywords : includes(low, kw)
             THEN "image-fallback"
             ELSE "null"

\* An image found by querySelectorAll('img'): attached, listener bound.
InitImage ==
    /\ imgAlt \in AltTexts
    /\ imgSlot = "img"
    /\ errorListener = TRUE

\* The image fails to load: handleImageError(img).  The listener was added
\* with { once: true }; the image is in the document, so it has a parent.
ImageError ==
    /\ errorListener
    /\ imgSlot = "img"
    /\ imgSlot' = IF createFallbackElement(imgAlt) # "null"
                  THEN createFallbackElement(imgAlt)
                  ELSE imgSlot
    /\ errorListener' = FALSE
    /\ lastEvent' = "imgerror"
    /\ UNCHANGED <<imgAlt, navVars, evtVars, appVars, revVars>>
    /\ UNCHANGED <<carVars, btnVars, cardVars, plxVars, rafQueue>>

NextImage == ImageError

\* ============================================================ composition

\* ========================================================= reveal on scroll

\* The .fade-in-up elements, in document order.
Elements == 1..MaxReveal

\* Faulty variant of unobserve: the target stays observed.
unobserveNothing(targets, e) == targets

\* observer.unobserve(e).
unobserve(targets, e) == targets \ {e}

\* The observer callback, entries.forEach from entry k on. Each target of
\* entries has one entry, whose isIntersecting is view[target]; st holds
\* the targets, the play states and the write counts so far.
RECURSIVE handleEntries(_, _, _, _)
handleEntries(k, entries, view, st) ==
    IF k > MaxReveal THEN st
    ELSE IF k \in entries /\ view[k]
    THEN handleEntries(k + 1, entries, view,
            [observed |-> unobserve(st.observed, k),
             playState |-> [st.playState EXCEPT ![k] = "running"],
             triggers |-> [st.triggers EXCEPT
                              ![k] = IF @ < MaxTriggers THEN @ + 1 ELSE @]])
    ELSE handleEntries(k + 1, entries, view, st)

\* setupIntersectionObserver(): every element is observed, and the browser
\* queues a first entry for each target.
InitReveal ==
    /\ observed = Elements
    /\ playState = [e \in Elements |-> ""]
    /\ inView \in [Elements -> BOOLEAN]
    /\ pending = Elements
    /\ triggers = [e \in Elements |-> 0]
    /\ returns = [e \in Elements |-> 0]

\* Scrolling moves element e across the viewport's edge; the browser queues
\* an entry when e is a target.
ViewportChange(e) ==
    /\ inView' = [inView EXCEPT ![e] = ~@]
    /\ pending' = IF e \in observed THEN pending \cup {e} ELSE pending
    /\ returns' = IF e \in observed THEN returns
                  ELSE [returns EXCEPT
                           ![e] = IF @ < MaxReturns THEN @ + 1 ELSE @]
    /\ lastEvent' = "viewport"
    /\ UNCHANGED <<observed, playState, triggers>>
    /\ UNCHANGED <<navVars, imgVars, evtVars, appVars>>
    /\ UNCHANGED <<carVars, btnVars, cardVars, plxVars, rafQueue>>

\* The browser delivers the queued entries: the observer callback.
IntersectionCallback ==
    /\ pending # {}
    /\ LET st == handleEntries(1, pending, inView,
                               [observed |-> observed,
                                playState |-> playState,
                                triggers |-> triggers])
       IN /\ observed' = st.observed
          /\ playState' = st.playState
          /\ triggers' = st.triggers
    /\ pending' = {}
    /\ lastEvent' = "intersect"
    /\ UNCHANGED <<inView, returns>>
    /\ UNCHANGED <<navVars, imgVars, evtVars, appVars>>
    /\ UNCHANGED <<carVars, btnVars, cardVars, plxVars, rafQueue>>

NextReveal ==
    \/ \E e \in Elements : ViewportChange(e)
    \/ IntersectionCallback

\* ============================================================ ChocoCraftApp

\* The names initializeControllers registers, in statement order.
ControllerOrder ==
    <<"animation", "navigation", "productCard", "button", "scroll",
      "imageError", "testimonialCarousel">>

\* The statements of the try block: the seven constructions, then
\* addGlobalStyles().
InitSteps == ControllerOrder \o <<"styles">>

\* Faulty variant of afterThrow: the next statement runs after a throw.
afterThrowContinue(step) == step + 1

\* Where control goes when statement step throws: to the catch block, past
\* every remaining statement of the try block.
afterThrow(step) == Len(InitSteps) + 1

\* The try block from statement step on, st being what is done so far.
RECURSIVE runInit(_, _, _)
runInit(step, bad, st) ==
    IF step > Len(InitSteps) THEN st
    ELSE IF InitSteps[step] \in bad
    THEN runInit(afterThrow(step), bad,
                 [st EXCEPT !.caught = IF @ = "none" THEN InitSteps[step]
                                       ELSE @])
    ELSE IF InitSteps[step] = "styles"
    THEN runInit(step + 1, bad, [st EXCEPT !.styles = TRUE])
    ELSE runInit(step + 1, bad,
                 [st EXCEPT !.controllers = Append(@, InitSteps[step])])

\* The application object before initializeControllers() runs (the
\* document is still loading): an empty map.
InitBoot ==
    /\ controllers = <<>>
    /\ throwing \in SUBSET {InitSteps[i] : i \in 1..Len(InitSteps)}
    /\ initialized = FALSE
    /\ stylesInjected = FALSE
    /\ caught = "none"
    /\ propagated = FALSE
    /\ destroyed = FALSE

\* The application object after a start-up in which nothing threw.
InitApp ==
    /\ controllers = ControllerOrder
    /\ throwing = {}
    /\ initialized = TRUE
    /\ stylesInjected = TRUE
    /\ caught = "none"
    /\ propagated = FALSE
    /\ destroyed = FALSE

\* DOMContentLoaded: initializeControllers(). The catch block logs and
\* returns, so no exception leaves the method.
InitializeControllers ==
    /\ ~initialized
    /\ LET st == runInit(1, throwing,
                         [controllers |-> controllers, styles |-> FALSE,
                          caught |-> "none"])
       IN /\ controllers' = st.controllers
          /\ stylesInjected' = st.styles
          /\ caught' = st.caught
    /\ initialized' = TRUE
    /\ propagated' = FALSE
    /\ lastEvent' = "initialize"
    /\ UNCHANGED <<throwing, destroyed>>
    /\ UNCHANGED <<navVars, imgVars, evtVars, revVars>>
    /\ UNCHANGED <<carVars, btnVars, cardVars, plxVars, rafQueue>>

\* app.destroy(): no controller class defines a destroy method, so the
\* forEach body calls nothing; then the map is cleared.
Destroy ==
    /\ controllers' = <<>>
    /\ destroyed' = TRUE
    /\ lastCall' = "none"
    /\ lastEvent' = "destroy"
    /\ UNCHANGED <<throwing, initialized, stylesInjected, caught, propagated>>
    /\ UNCHANGED <<navVars, imgVars, evtVars, revVars>>
    /\ UNCHANGED <<page, slides, dots, currentIndex, autoPlayInterval,
                   intervals, nextTimerId, hovering, sinceStart, runStart,
                   runLen>>
    /\ UNCHANGED <<btnVars, cardVars, plxVars, rafQueue>>

NextApp ==
    \/ InitializeControllers
    \/ Destroy

\* ============================================================= composition

\* Everything but the application object, after construction.
InitPage ==
    /\ InitCarousel
    /\ InitButton
    /\ InitCard
    /\ InitParallax
    /\ InitNav
    /\ InitImage
    /\ InitReveal
    /\ eventTarget = "none"
    /\ rect = "none"
    /\ keyDefaultPrevented = FALSE
    /\ rafQueue = <<>>
    /\ lastEvent = "init"

Init ==
    /\ InitApp
    /\ InitPage

Next ==
    \/ NextCarousel
    \/ NextRipple
    \/ NextParticle
    \/ NextParallax
    \/ NextNav
    \/ NextImage
    \/ NextReveal
    \/ NextApp

Spec == Init /\ [][Next]_vars

\* A page without a testimonial carousel.
NoCarousel ==
    page = [carousel |-> FALSE, slides |-> 0, dots |-> 0,
            container |-> FALSE]

\* The button's position is not set inline; the hero content exists.
PlainPage == position0 = "" /\ heroContent = TRUE

\* A page without a navigation bar or in-page anchors.
NoNav ==
    /\ navPage = [navbar |-> FALSE, toggle |-> FALSE, menu |-> FALSE,
                  hero |-> FALSE, ids |-> {}]
    /\ ariaExpanded = "null"

\* A page whose image carries no alt text.
NoImage == imgAlt = <<>>

\* A page whose .fade-in-up elements all start outside the viewport.
BelowFold == inView = [e \in Elements |-> FALSE]

\* The carousel alone, on a page whose other controls are left untouched.
InitCarouselOnly == BelowFold /\ PlainPage /\ NoNav /\ NoImage /\ Init

SpecCarousel == InitCarouselOnly /\ [][NextCarousel \/ Destroy]_vars

\* The button and its ripples alone.
InitRippleOnly ==
    BelowFold /\ NoCarousel /\ heroContent = TRUE /\ NoNav /\ NoImage /\ Init

SpecRipple == InitRippleOnly /\ [][NextRipple]_vars

\* The product card and its particles alone.
InitParticleOnly ==
    BelowFold /\ NoCarousel /\ PlainPage /\ NoNav /\ NoImage /\ Init

SpecParticle == InitParticleOnly /\ [][NextParticle]_vars

\* The button and the product card together: every caller of
\* Utils.getBoundingRect.
NextEffects ==
    \/ NextRipple
    \/ NextParticle

SpecEffects == InitParticleOnly /\ [][NextEffects]_vars

\* The start-up of the application alone, on a page that holds none of
\* the elements the controllers look for.
InitBootOnly ==
    /\ BelowFold /\ NoCarousel /\ PlainPage /\ NoNav /\ NoImage
    /\ InitBoot /\ InitPage

SpecBoot == InitBootOnly /\ [][NextApp]_vars

\* The reveal observer alone.
InitRevealOnly == NoCarousel /\ PlainPage /\ NoNav /\ NoImage /\ Init

SpecReveal == InitRevealOnly /\ [][NextReveal]_vars

\* The parallax scroll handler alone.
InitParallaxOnly ==
    BelowFold /\ NoCarousel /\ position0 = "" /\ NoNav /\ NoImage /\ Init

SpecParallax == InitParallaxOnly /\ [][NextParallax]_vars

\* The navigation bar and the anchor links alone.
InitNavOnly == BelowFold /\ NoCarousel /\ PlainPage /\ NoImage /\ Init

SpecNav == InitNavOnly /\ [][NextNav]_vars

\* The image error handler alone.
InitImageOnly == BelowFold /\ NoCarousel /\ PlainPage /\ NoNav /\ Init

SpecImage == InitImageOnly /\ [][NextImage]_vars

\* ======================================================= carousel claims

\* Slides (1-based positions) that carry the positional class c.
Holding(c) == {k \in 1..Len(slides) : c \in slides[k]}

\* C1: with at least one slide, exactly one slide holds "active"; with at
\* least three slides, exactly one holds "prev" and exactly one holds
\* "next", and neither is the active slide.
C1_ExactlyOneDesignation ==
    Len(slides) >= 1 =>
        /\ Cardinality(Holding("active")) = 1
        /\ Len(slides) >= 3 =>
            /\ Cardinality(Holding("prev")) = 1
            /\ Cardinality(Holding("next")) = 1
            /\ Holding("prev") \cap Holding("active") = {}
            /\ Holding("next") \cap Holding("active") = {}
            /\ Holding("prev") \cap Holding("next") = {}

\* The position before and after idx in a ring of n slides.
PrevPos(idx, n) == (idx - 1 + n) % n
NextPos(idx, n) == (idx + 1) % n

\* C2 as stated: every slide holds "active" iff it is at the index, "prev"
\* iff it is at (index - 1 + count) mod count, "next" iff it is at
\* (index + 1) mod count, and dot i is active iff i is the index.
C2_ReferenceRule ==
    Len(slides) >= 1 =>
        /\ \A k \in 1..Len(slides) :
            /\ ("active" \in slides[k]) <=> (k - 1 = currentIndex)
            /\ ("prev" \in slides[k])
                  <=> (k - 1 = PrevPos(currentIndex, Len(slides)))
            /\ ("next" \in slides[k])
                  <=> (k - 1 = NextPos(currentIndex, Len(slides)))
        /\ \A k \in 1..Len(dots) :
            ("active" \in dots[k]) <=> (k - 1 = currentIndex)

\* C2 amended: a slide holds at most one designation, the first that
\* applies of active (at the index), prev (at index - 1 mod count), next
\* (at index + 1 mod count); dot i is active iff i is the index.
C2_FirstMatchRule ==
    Len(slides) >= 1 =>
        /\ \A k \in 1..Len(slides) :
            /\ Cardinality(slides[k]) <= 1
            /\ ("active" \in slides[k]) <=> (k - 1 = currentIndex)
            /\ ("prev" \in slides[k])
                  <=> /\ k - 1 # currentIndex
                      /\ k - 1 = PrevPos(currentIndex, Len(slides))
            /\ ("next" \in slides[k])
                  <=> /\ k - 1 # currentIndex
                      /\ k - 1 # PrevPos(currentIndex, Len(slides))
                      /\ k - 1 = NextPos(currentIndex, Len(slides))
        /\ \A k \in 1..Len(dots) :
            ("active" \in dots[k]) <=> (k - 1 = currentIndex)

\* C2 witness: a timer tick re-rendered a two-slide carousel, so the slide
\* that is not active is both the prev and the next position.
C2_Witness ==
    /\ Len(slides) = 2
    /\ lastEvent = "tick"
    /\ currentIndex = 1
    /\ slides[1] = {"prev"}

\* C3: the current index is always in [0, slideCount).
C3_IndexInRange ==
    Len(slides) >= 1 => currentIndex \in 0..(Len(slides) - 1)

\* C4: at most one interval timer is live; every timer created earlier
\* than the one the handle names is dead; and right after startAutoPlay the
\* one live timer is the new one.
C4_AtMostOneTimer ==
    /\ Cardinality(DOMAIN intervals) <= 1
    /\ \A t \in 1..(nextTimerId - 1) :
          t # autoPlayInterval => t \notin DOMAIN intervals
    /\ lastEvent = "mouseleave" =>
          /\ DOMAIN intervals = {autoPlayInterval}
          /\ autoPlayInterval = nextTimerId - 1

\* C4 witness: startAutoPlay was called while a timer was running.
C4_Witness ==
    /\ lastEvent = "mouseleave"
    /\ lastCall = "start-running"
    /\ Cardinality(DOMAIN intervals) = 1

\* C5: a stopAutoPlay made while no timer is live leaves the handle null
\* and changes neither the timers, the index nor any designation.
C5_StopIdempotent ==
    [][(lastEvent' = "mouseenter" /\ DOMAIN intervals = {}) =>
          /\ autoPlayInterval' = Null
          /\ autoPlayInterval' = autoPlayInterval
          /\ intervals' = intervals
          /\ currentIndex' = currentIndex
          /\ slides' = slides
          /\ dots' = dots]_vars

\* C5 witness: stopAutoPlay ran with no timer live (a second stop).
C5_Witness ==
    /\ lastEvent = "mouseenter"
    /\ lastCall = "stop-idle"
    /\ autoPlayInterval = Null

\* C6: between a mouseenter and the next mouseleave no timer is live, so
\* no tick happens while hovering; right after a mouseleave exactly one
\* timer is live with nothing elapsed, and every tick comes a full
\* interval after the last startAutoPlay.
C6_HoverPauses ==
    /\ hovering => DOMAIN intervals = {}
    /\ lastEvent = "tick" => (~hovering /\ sinceStart = IntervalSteps)
    /\ lastEvent = "mouseleave" =>
          /\ Cardinality(DOMAIN intervals) = 1
          /\ \A t \in DOMAIN intervals : intervals[t] = 0

\* C6 witness: the timer restarted by a mouseleave has ticked.
C6_Witness ==
    /\ lastEvent = "tick"
    /\ nextTimerId >= 3
    /\ autoPlayInterval = nextTimerId - 1
    /\ ~hovering

\* C7: slideCount advances in a row from an index in [0, slideCount) bring
\* the index back to where the run started.
C7_CyclicClosure ==
    (/\ Len(slides) >= 1
     /\ runStart \in 0..(Len(slides) - 1)
     /\ runLen = Len(slides))
        => currentIndex = runStart

\* C7 witness: three advances in a row on three slides, started at 1.
C7_Witness ==
    /\ Len(slides) = 3
    /\ runLen = 3
    /\ runStart = 1
    /\ currentIndex = 1
    /\ lastEvent = "tick"

\* ================================================= animation-engine claims

\* C8: once every ripple timeout has fired, no ripple is attached and the
\* button's inline position is the one it had before the first burst.
C8_RippleRestores ==
    rippleTimers = <<>> => (ripples = {} /\ buttonPosition = position0)

\* C9: the particles attached to the page are exactly 8 for every burst
\* whose cleanup timeout is still pending, whether or not their frame
\* callbacks have run, and none once every timeout has fired.
C9_ParticlesPerBurst ==
    /\ Cardinality(body) = PARTICLES_COUNT * Len(particleTimers)
    /\ \A k \in 1..Len(particleTimers) :
          /\ Cardinality(particleTimers[k]) = PARTICLES_COUNT
          /\ particleTimers[k] \subseteq body
    /\ particleTimers = <<>> => body = {}

\* C9 witness: two bursts, the first animated by a frame and already
\* cleaned up, the second cleaned up before any frame ran for it.
C9_Witness ==
    /\ nextBurst = 3
    /\ particleTimers = <<>>
    /\ body = {}
    /\ Pending("particle") = PARTICLES_COUNT
    /\ lastEvent = "particletimeout"

\* C10: at most one parallax recomputation is pending; scroll events since
\* the last frame leave exactly one pending; and a frame preceded by n >= 1
\* scroll events runs exactly one recomputation, a frame preceded by none
\* runs none.
C10_FrameCoalesced ==
    /\ Pending("parallax") <= 1
    /\ ticking <=> (Pending("parallax") = 1)
    /\ scrollsSinceFrame >= 1 => Pending("parallax") = 1
    /\ lastEvent = "frame" =>
          frameRecomputes = (IF frameScrolls >= 1 THEN 1 ELSE 0)

\* C10 witness: a frame that followed several scroll events ran one
\* recomputation, with the offset of the last of them.
C10_Witness ==
    /\ lastEvent = "frame"
    /\ frameScrolls >= 2
    /\ frameRecomputes = 1
    /\ pageYOffset = 200
    /\ heroContent
    /\ heroTransform = 20
    /\ textureTransform = 10

\* ======================================================= navigation claims

\* C11: after a click on a navigation link with href "#main-content" while
\* the hero section exists, the page is scrolling to the hero section.
C11_MainContentGoesToHero ==
    (/\ lastEvent = "navlink"
     /\ lastHref = "#main-content"
     /\ NavBound
     /\ navPage.hero)
        => scrollTarget = ".hero"

\* C12: the menu has the class "active" iff aria-expanded is "true"; a
\* toggle click flips both, and a navigation-link click leaves the menu
\* collapsed.
C12_MenuStateConsistent ==
    [][/\ menuActive' <=> (ariaExpanded' = "true")
       /\ lastEvent' = "toggle" =>
             /\ menuActive' = ~menuActive
             /\ (ariaExpanded' = "true") = ~(ariaExpanded = "true")
       /\ lastEvent' = "navlink" =>
             /\ ~menuActive'
             /\ ariaExpanded' # "true"]_vars

\* C12 witness: a link click closed a menu that a toggle click had opened,
\* and a later toggle click opened it again.
C12_Witness ==
    /\ lastEvent = "toggle"
    /\ lastHref # "none"
    /\ menuActive
    /\ ariaExpanded = "true"

\* =================================================== image fallback claims

\* Some keyword of kws occurs in the lower-cased alt text.
AltHas(kws) == \E kw \in kws : includes(toLowerCase(imgAlt), kw)

\* C13: once the image has failed, the card-style placeholder stands in
\* its place iff the lower-cased alt text contains "truffle", "praline" or
\* "bark"; the banner-style placeholder iff it contains none of these but
\* "hero", "chocolate" or "artisan"; otherwise the image stays.  Until it
\* fails the image stays.
C13_FirstMatchFallback ==
    /\ errorListener => imgSlot = "img"
    /\ ~errorListener =>
          /\ AltHas(ProductKeywords) => imgSlot = "product-card__placeholder"
          /\ (~AltHas(ProductKeywords) /\ AltHas(BrandKeywords))
                => imgSlot = "image-fallback"
          /\ (~AltHas(ProductKeywords) /\ ~AltHas(BrandKeywords))
                => imgSlot = "img"

\* C13 witness: the image "Artisan Dark Truffle" failed and the card-style
\* placeholder replaced it although brand keywords occur too.
C13_Witness ==
    /\ ~errorListener
    /\ imgAlt = Join(<<<<"A", "r", "t", "i", "s", "a", "n">>, <<"D", "a", "r", "k">>, <<"T", "r", "u", "f", "f", "l", "e">>>>)
    /\ AltHas(BrandKeywords)
    /\ imgSlot = "product-card__placeholder"

\* ================================================ card and geometry claims

\* C14: a click on the card whose target is a button changes nothing of
\* the card and spawns nothing; any other click sets the press feedback
\* once and calls the particle burst once (8 particles and one cleanup
\* timeout when the geometry query succeeds).
C14_CardClickOnce ==
    [][lastEvent' = "cardclick" =>
          IF eventTarget' = "BUTTON"
          THEN UNCHANGED <<body, styled, particleTimers, nextBurst,
                           cardTransform, cardPressTimers, rafQueue>>
          ELSE /\ cardTransform' = "scale(0.98)"
               /\ cardPressTimers' = cardPressTimers + 1
               /\ rect' \in {"rect", "null"}
               /\ rect' = "rect" =>
                     /\ Len(particleTimers') = Len(particleTimers) + 1
                     /\ Cardinality(body') =
                           Cardinality(body) + PARTICLES_COUNT]_vars

\* C14 witness: a click on the card made one burst, and a later click on a
\* button inside the card added nothing to it.
C14_Witness ==
    /\ lastEvent = "cardclick"
    /\ eventTarget = "BUTTON"
    /\ nextBurst = 2
    /\ Cardinality(body) = PARTICLES_COUNT
    /\ cardPressTimers = 1

\* C15: when the geometry query returns null, the button click attaches no
\* ripple, schedules no ripple timeout and leaves position and overflow
\* alone, and the card activation attaches no particle, requests no frame
\* and schedules no cleanup timeout; in both the handler runs on to its
\* press feedback.
C15_NoRectNoEffect ==
    [][/\ (lastEvent' = "buttonclick" /\ rect' = "null") =>
             /\ UNCHANGED <<ripples, rippleTimers, buttonPosition,
                            buttonOverflow, nextRipple>>
             /\ pressTimers' = pressTimers + 1
       /\ (lastEvent' \in {"cardclick", "cardkeydown"} /\ rect' = "null") =>
             /\ UNCHANGED <<body, particleTimers, rafQueue, nextBurst>>
             /\ cardPressTimers' = cardPressTimers + 1]_vars

\* C15 witness: the query failed for a card activation and for a button
\* click, and neither left an element or a cleanup timeout behind.
C15_Witness ==
    /\ lastEvent = "buttonclick"
    /\ rect = "null"
    /\ pressTimers = 1
    /\ ripples = {}
    /\ rippleTimers = <<>>
    /\ buttonPosition = position0
    /\ buttonOverflow = ""
    /\ cardPressTimers = 1
    /\ nextBurst = 1
    /\ body = {}
    /\ particleTimers = <<>>

\* ================================================ skipped carousel set-up

\* C16: on a page without the carousel root, or with a root holding no
\* slide, no interval timer is ever created, no handler of the carousel
\* ever runs (no stopAutoPlay or startAutoPlay call, no tick), and the
\* index stays 0, whatever events arrive.
C16_SkippedSetupStaysIdle ==
    ~(page.carousel /\ page.slides > 0) =>
        /\ autoPlayInterval = Null
        /\ intervals = <<>>
        /\ nextTimerId = 1
        /\ currentIndex = 0
        /\ lastCall = "none"
        /\ lastEvent # "tick"
        /\ \A k \in 1..Len(dots) : dots[k] = {}

\* C16 witness: a root without slides beside indicators and a container;
\* the pointer entered the container, a full interval went by, and an
\* indicator was clicked.
C16_Witness ==
    /\ page.carousel
    /\ page.slides = 0
    /\ page.dots > 0
    /\ page.container
    /\ hovering
    /\ sinceStart = IntervalSteps
    /\ lastEvent = "dot-unbound"

\* ================================================ application root claims

\* Position of the first start-up statement that throws; one past the last
\* statement when none does.
FirstThrow ==
    LET bad == {i \in 1..Len(InitSteps) : InitSteps[i] \in throwing}
    IN IF bad = {} THEN Len(InitSteps) + 1
       ELSE CHOOSE i \in bad : \A j \in bad : i <= j

\* The first n names of the fixed order.
Registered(n) ==
    SubSeq(ControllerOrder, 1,
           IF n < Len(ControllerOrder) THEN n ELSE Len(ControllerOrder))

\* C17: right after initializeControllers() the registry holds, in the
\* fixed order, exactly the controllers that precede the first throwing
\* statement (all seven when none throws); the styles are injected only
\* when no statement threw; the failure is caught and nothing propagates.
C17_PrefixRegistered ==
    /\ ~initialized /\ ~destroyed => controllers = <<>>
    /\ lastEvent = "initialize" =>
          /\ controllers = Registered(FirstThrow - 1)
          /\ stylesInjected = (throwing = {})
          /\ caught = IF throwing = {} THEN "none" ELSE InitSteps[FirstThrow]
          /\ ~propagated

\* C17 witness: the fourth construction threw, and a later one would have
\* thrown too; the first three controllers are registered.
C17_Witness ==
    /\ lastEvent = "initialize"
    /\ throwing = {"button", "imageError"}
    /\ controllers = <<"animation", "navigation", "productCard">>
    /\ caught = "button"
    /\ ~stylesInjected

\* C20: once destroy() has run no interval timer is live, and no tick
\* moves the carousel.
C20_DestroyStopsCarousel ==
    destroyed =>
        /\ DOMAIN intervals = {}
        /\ lastEvent # "tick"

\* ================================================ ripple containment

\* C19: while a ripple is attached to the button, the button's inline
\* position is "relative".
C19_RippleContained ==
    ripples # {} => buttonPosition = "relative"

\* ================================================ reveal claims

\* C18: the callback sets an element running at its first intersecting
\* entry and unobserves it in the same step; an element is written at most
\* once, and only while observed; a non-intersecting entry changes neither
\* the element's play state nor its observation; an unobserved element gets
\* no further entry however it crosses the viewport.
C18_RevealOneShot ==
    [][/\ \A e \in Elements :
             /\ triggers'[e] <= 1
             /\ (playState'[e] = "running") = (e \notin observed')
             /\ (triggers'[e] = 1) = (e \notin observed')
             /\ e \notin observed => /\ e \notin pending'
                                     /\ playState'[e] = playState[e]
                                     /\ triggers'[e] = triggers[e]
       /\ lastEvent' = "intersect" =>
             \A e \in pending :
                IF inView[e]
                THEN /\ playState'[e] = "running"
                     /\ e \notin observed'
                     /\ triggers'[e] = 1
                ELSE /\ playState'[e] = playState[e]
                     /\ e \in observed'
                     /\ triggers'[e] = 0]_vars

\* C18 witness: one element was revealed, then left the viewport and came
\* back, and was written once; another got a non-intersecting entry in the
\* last callback and is still observed and untouched.
C18_Witness ==
    /\ lastEvent = "intersect"
    /\ \E e \in Elements :
          /\ triggers[e] = 1
          /\ playState[e] = "running"
          /\ e \notin observed
          /\ returns[e] = MaxReturns
          /\ inView[e]
    /\ \E e \in Elements :
          /\ e \in observed
          /\ ~inView[e]
          /\ playState[e] = ""
          /\ triggers[e] = 0

\* ================================================ keyboard activation

\* C21: a keydown whose target is a button inside the card leaves the
\* card's particles alone (no particle attached, no frame requested, no
\* cleanup timeout scheduled) and is not default-prevented by the card's
\* handler.
C21_InnerButtonKeyIgnored ==
    [][(lastEvent' = "cardkeydown" /\ eventTarget' = "BUTTON") =>
          /\ ~keyDefaultPrevented'
          /\ UNCHANGED <<body, particleTimers, nextBurst, rafQueue>>]_vars

====
